---------------------------- MODULE Spec2Model ----------------------------
(***************************************************************************)
(* Model of the migrate-ds command of ipalib/plugins/migration.py:         *)
(* migrate_ds.execute, migrate_ds.migrate and the user/group callbacks.    *)
(* The source directory (ds_ldap) and the target directory (ldap) are the  *)
(* environment: what a search returns and whether an insertion is accepted *)
(* are chosen nondeterministically within the rules of a directory server  *)
(* (an insertion at an existing DN is always rejected).                    *)
(***************************************************************************)
EXTENDS Integers, Sequences, FiniteSets, TLC

VARIABLES
    config,       \* IPA config entry: value of ipamigrationenabled
    options,      \* options of the command (exclude_users, exclude_groups, continue, schema)
    ldap,         \* target directory: users, groups, principals, members of the default group
    ds_ldap,      \* source directory as revealed by the searches: per type, the result
    pc,           \* position in execute/migrate
    obj,          \* index into migrate_order of the type being migrated (ldap_obj_name)
    entries,      \* result of the search of the current type
    idx,          \* index of the current entry in entries
    pkey,         \* primary key of the current entry
    entry_attrs,  \* attributes of the current entry handed to add_entry
    context,      \* per-type context dictionary (ctx)
    migrated,     \* {'OBJ': ['PKEY1', ...]}
    failed,       \* {'OBJ': {'PKEY1': reason}}
    ret,          \* value returned by execute (once it has returned)
    raised,       \* exception that ended the call, or None
    calls,        \* directory calls and callback invocations of this call, in order
    run,          \* 1 for the first call of execute, 2 for the repeated one
    first,        \* report and options of the first call, kept for the repeated call
    hook          \* a callback invoked on its own: its arguments, then its results

vars == <<config, options, ldap, ds_ldap, pc, obj, entries, idx, pkey,
          entry_attrs, context, migrated, failed, ret, raised, calls, run, first,
          hook>>

None == "None"

\* Bound: number of entries the source directory holds over both containers.
MaxEntries == 2

-----------------------------------------------------------------------------
\* Values

\* unicode.lower() on the key values of the model
Lower(s) ==
    CASE s = "A" -> "a"
      [] s = "B" -> "b"
      [] s = "G" -> "g"
      [] s = "D" -> "d"
      [] s = "O" -> "o"
      [] s = "P" -> "p"
      [] s = "U" -> "u"
      [] s = "X" -> "x"
      [] s = "krbPrincipalName" -> "krbprincipalname"
      [] s = "posixAccount" -> "posixaccount"
      [] OTHER -> s

Range(s) == { s[i] : i \in DOMAIN s }

EmptyMap == <<>>

Put(m, k, v) == [x \in DOMAIN m \cup {k} |-> IF x = k THEN v ELSE m[x]]

krb_err_msg == "Kerberos principal already exists"
grp_err_msg == "Failed to add user to the default group"
ref_err_msg == "Migration of LDAP search reference is not supported"
dup_err_msg == "This entry already exists"
oth_err_msg == "constraint violation"

supported_schemas == <<"RFC2307bis", "RFC2307">>

migrate_order_reversed == <<"group", "user">>

migrate_order == <<"user", "group">>

post_callback_for_all == [user |-> TRUE, group |-> TRUE]

\* migrate_objects[...]['post_callback'] is callable
post_callback == [user |-> TRUE, group |-> FALSE]

exclude_option == [user |-> "exclude_users", group |-> "exclude_groups"]

\* config.get('ipadefaultprimarygroup')
ipadefaultprimarygroup == "ipausers"

\* Search results of the source directory.  dn = None marks a search
\* reference, whose attribute list holds the referral URL (entry_attrs[0]).
UserEntries ==
    { [dn |-> None, key |-> "ldap://ref", member |-> <<>>] } \cup
    { [dn |-> "ds", key |-> k, member |-> <<>>] : k \in {"a", "A", "b"} }

GroupEntries ==
    { [dn |-> None, key |-> "ldap://ref", member |-> <<>>] } \cup
    { [dn |-> "ds", key |-> "G", member |-> <<"a">>],
      [dn |-> "ds", key |-> "g", member |-> <<>>] }

SourceEntries == [user |-> UserEntries, group |-> GroupEntries]

SeqsUpTo(S, n) == UNION { [1..k -> S] : k \in 0..n }

\* entries already returned by the searches of this source directory
Held(t) == Len(ds_ldap[t].entries)

\* a container of the source directory that no search has looked at yet
NotSearched == [searched |-> FALSE, exists |-> FALSE, entries |-> <<>>, truncated |-> FALSE]

\* ret before execute has returned
NoReport == [result |-> <<>>, failed |-> <<>>, enabled |-> FALSE]

\* no callback is invoked on its own
NoHook == [fn |-> None]

Event(op, t, k, ok) == [op |-> op, obj |-> t, key |-> k, ok |-> ok]

-----------------------------------------------------------------------------
Init ==
    /\ config \in [ipamigrationenabled : {"TRUE", "FALSE", None}]
    /\ options \in [exclude_users : {{}, {"A"}}, exclude_groups : {{}, {"G"}},
                    continue : BOOLEAN,
                    schema : Range(supported_schemas) \cup {"RFC9999"}]
    /\ ldap \in [users : {{}, {"b"}}, principals : {{}, {"a"}},
                 groups : {{}, {ipadefaultprimarygroup}}, def_members : {{}}]
    /\ ds_ldap = [user |-> NotSearched, group |-> NotSearched]
    /\ pc = "execute"
    /\ obj = 1
    /\ entries = <<>>
    /\ idx = 1
    /\ pkey = None
    /\ entry_attrs = EmptyMap
    /\ context = EmptyMap
    /\ migrated = EmptyMap
    /\ failed = EmptyMap
    /\ ret = NoReport
    /\ raised = None
    /\ calls = <<>>
    /\ run = 1
    /\ first = [ret |-> NoReport, ldap |-> ldap]
    /\ hook = NoHook


-----------------------------------------------------------------------------
\* migrate_ds.normalize_options: the "exclude" lists are lower-cased
normalize_options(o) ==
    [o EXCEPT !.exclude_users = {Lower(v) : v \in @},
              !.exclude_groups = {Lower(v) : v \in @}]

migration_never_disabled(c) == FALSE

\* config.get('ipamigrationenabled', ('FALSE', ))[0] == 'FALSE'
migration_disabled(c) ==
    (IF c.ipamigrationenabled = None THEN "FALSE" ELSE c.ipamigrationenabled) = "FALSE"

\* ldap_obj.get_dn(pkey) names an existing entry of the target
dn_exists(t, k) == IF t = "user" THEN k \in ldap.users ELSE k \in ldap.groups

ldap_obj_name == migrate_order[obj]

exclude == options[exclude_option[ldap_obj_name]]

\* execute has returned ret
Returned == pc = "done" /\ raised = None

target_rolled_back(l) == first.ldap

\* the exception leaves migrate and execute: nothing is undone in the target
target_after_abort(l) == l

Raise(e) ==
    /\ raised' = e
    /\ pc' = "done"

\* migrate_ds.execute up to the call of migrate
execute ==
    /\ pc = "execute"
    /\ options' = normalize_options(options)
    /\ IF migration_disabled(config)
       THEN /\ ret' = [result |-> EmptyMap, failed |-> EmptyMap, enabled |-> FALSE]
            /\ pc' = "done"
            /\ calls' = calls \o <<Event("get_ipa_config", None, None, TRUE)>>
            /\ UNCHANGED raised
       ELSE \E answer \in {"bound", "bind refused", "no namingcontexts"} :
            /\ calls' = calls \o
                 <<Event("get_ipa_config", None, None, TRUE),
                   Event("ds_connect", None, None, answer # "bind refused")>> \o
                 (IF answer = "bind refused" THEN <<>>
                  ELSE <<Event("ds_find_entries", "namingcontexts", None,
                               answer = "bound")>>)
            /\ IF answer = "bound"
               THEN pc' = "search" /\ UNCHANGED raised
               ELSE Raise(IF answer = "bind refused" THEN "ACIError" ELSE "StandardError")
            /\ UNCHANGED ret
    /\ UNCHANGED <<hook, config, ldap, ds_ldap, obj, entries, idx, pkey, entry_attrs,
                   context, migrated, failed, run, first>>

missing_container_always_fatal == TRUE

missing_container_never_fatal == FALSE

\* except errors.NotFound: if not options.get('continue', False): raise
missing_container_fatal == ~options.continue

found_entries_reversed(found) ==
    [i \in DOMAIN found.entries |-> found.entries[Len(found.entries) + 1 - i]]

truncated_entries_dropped(found) == IF found.truncated THEN <<>> ELSE found.entries

\* (entries, truncated) = ds_ldap.find_entries(...): the entries iterated
found_entries(found) == found.entries

\* migrate: head of the loop over migrate_order, with the search of the type
find_entries ==
    /\ pc = "search"
    /\ migrated' = Put(migrated, ldap_obj_name, <<>>)
    /\ failed' = Put(failed, ldap_obj_name, EmptyMap)
    /\ context' = EmptyMap
    /\ \E found \in
           IF ds_ldap[ldap_obj_name].searched THEN {ds_ldap[ldap_obj_name]}
           ELSE { [searched |-> TRUE, exists |-> FALSE, entries |-> <<>>,
                   truncated |-> FALSE] } \cup
                [searched : {TRUE}, exists : {TRUE},
                 entries : SeqsUpTo(SourceEntries[ldap_obj_name],
                                    MaxEntries - Held("user") - Held("group")),
                 truncated : BOOLEAN] :
        /\ ds_ldap' = [ds_ldap EXCEPT ![ldap_obj_name] = found]
        /\ calls' = Append(calls, Event("ds_find_entries", ldap_obj_name, None, found.exists))
        /\ IF ~found.exists /\ missing_container_fatal
           THEN /\ Raise("NotFound")
                /\ ldap' = target_after_abort(ldap)
                /\ UNCHANGED <<entries, idx>>
           ELSE /\ entries' = found_entries(found)
                /\ idx' = 1
                /\ pc' = "loop"
                /\ UNCHANGED <<raised, ldap>>
    /\ UNCHANGED <<hook, config, options, obj, pkey, entry_attrs, ret, run, first>>

\* the entry the loop "for (dn, entry_attrs) in entries" is at
entry == entries[idx]

in_loop == pc = "loop" /\ idx <= Len(entries)

reference_dropped(f, ref) == f

\* failed[ldap_obj_name][entry_attrs[0]] = unicode(_ref_err_msg)
reference_failed(f, ref) == Put(f, ref, ref_err_msg)

\* if dn is None: LDAP search reference
search_reference ==
    /\ in_loop
    /\ entry.dn = None
    /\ failed' = [failed EXCEPT ![ldap_obj_name] = reference_failed(@, entry.key)]
    /\ idx' = idx + 1
    /\ UNCHANGED <<hook, config, options, ldap, ds_ldap, pc, obj, entries, pkey,
                   entry_attrs, context, migrated, ret, raised, calls, run, first>>

nothing_excluded(k) == FALSE

\* pkey in exclude
is_excluded(k) == k \in exclude

\* if pkey in exclude: continue
excluded ==
    /\ in_loop
    /\ entry.dn # None
    /\ is_excluded(Lower(entry.key))
    /\ idx' = idx + 1
    /\ UNCHANGED <<hook, config, options, ldap, ds_ldap, pc, obj, entries, pkey,
                   entry_attrs, context, migrated, failed, ret, raised, calls,
                   run, first>>

def_group_gid == "gid of ipausers"

\* _pre_migrate_user: the principal pkey@REALM is found in the target
principal_exists(k) == k \in ldap.principals

def_group_assumed == TRUE

\* ldap.get_entry(ctx['def_group_dn'], ['gidnumber']) does not raise NotFound
def_group_found == ipadefaultprimarygroup \in ldap.groups

def_group_never_cached == TRUE

\* if 'def_group_dn' not in ctx
def_group_not_cached == "def_group_dn" \notin DOMAIN context

skip_existing_principal(k, dn) == IF k \in ldap.principals THEN None ELSE dn

\* _pre_migrate_user: return dn
pre_migrate_user_return(k, dn) == dn

\* _pre_migrate_user, called from the loop of migrate; "if not dn: continue"
pre_migrate_user ==
    /\ in_loop
    /\ entry.dn # None
    /\ ~is_excluded(Lower(entry.key))
    /\ ldap_obj_name = "user"
    /\ pkey' = Lower(entry.key)
    /\ LET k == Lower(entry.key)
           lookup == def_group_not_cached
           pre == <<Event("pre_callback", "user", k, TRUE)>>
           get == IF lookup
                  THEN <<Event("get_entry", "user", ipadefaultprimarygroup, def_group_found)>>
                  ELSE <<>>
       IN  IF lookup /\ ~def_group_found
           THEN /\ context' = Put(context, "def_group_dn", ipadefaultprimarygroup)
                /\ calls' = calls \o pre \o get
                /\ Raise("NotFound")
                /\ ldap' = target_after_abort(ldap)
                /\ UNCHANGED <<entry_attrs, failed, idx>>
           ELSE /\ context' = IF lookup
                              THEN [def_group_dn |-> ipadefaultprimarygroup,
                                    def_group_gid |-> def_group_gid]
                              ELSE context
                /\ calls' = calls \o pre \o get \o
                      <<Event("find_entry_by_attr", "user", k, principal_exists(k))>>
                /\ IF principal_exists(k)
                   THEN /\ failed' = [failed EXCEPT !["user"] = Put(@, k, krb_err_msg)]
                        /\ entry_attrs' = [ipauniqueid |-> "autogenerate"]
                   ELSE /\ entry_attrs' = [ipauniqueid |-> "autogenerate",
                                           krbprincipalname |-> k]
                        /\ UNCHANGED failed
                /\ IF pre_migrate_user_return(k, "dn") = None
                   THEN pc' = "loop" /\ idx' = idx + 1
                   ELSE pc' = "add" /\ UNCHANGED idx
                /\ UNCHANGED <<raised, ldap>>
    /\ UNCHANGED <<hook, config, options, ds_ldap, obj, entries, migrated,
                   ret, run, first>>

\* convert_members_rfc2307 / convert_members_rfc2307bis on the member list
convert_members(members) == [i \in DOMAIN members |-> <<"uid", members[i]>>]

schema_unchecked(schema) == TRUE

\* if schema == 'RFC2307bis': ... elif schema == 'RFC2307': ... else: raise ValueError
schema_supported(schema) == schema \in {"RFC2307bis", "RFC2307"}

\* _pre_migrate_group, called from the loop of migrate
pre_migrate_group ==
    /\ in_loop
    /\ entry.dn # None
    /\ ~is_excluded(Lower(entry.key))
    /\ ldap_obj_name = "group"
    /\ pkey' = Lower(entry.key)
    /\ calls' = Append(calls, Event("pre_callback", "group", Lower(entry.key), TRUE))
    /\ IF schema_supported(options.schema)
       THEN /\ entry_attrs' = [ipauniqueid |-> "autogenerate",
                               member |-> convert_members(entry.member)]
            /\ pc' = "add"
            /\ UNCHANGED <<raised, ldap>>
       ELSE /\ Raise("ValueError")
            /\ ldap' = target_after_abort(ldap)
            /\ UNCHANGED entry_attrs
    /\ UNCHANGED <<hook, config, options, ds_ldap, obj, entries, idx, context,
                   migrated, failed, ret, run, first>>

\* the target after a successful ldap.add_entry(dn, entry_attrs)
added(t, k, attrs) ==
    IF t = "user"
    THEN [ldap EXCEPT !.users = @ \cup {k},
                      !.principals = IF "krbprincipalname" \in DOMAIN attrs
                                     THEN @ \cup {attrs.krbprincipalname} ELSE @]
    ELSE [ldap EXCEPT !.groups = @ \cup {k}]

migrated_anyway(done, k) == Append(done, k)

\* migrated[ldap_obj_name].append(pkey) is in the else clause of the try only
not_migrated(done, k) == done

add_failed_keeps_first(f, k, msg) == IF k \in DOMAIN f THEN f ELSE Put(f, k, msg)

add_failure_ignored(f, k, msg) == f

\* except errors.ExecutionError, e: failed[ldap_obj_name][pkey] = unicode(e)
add_failed(f, k, msg) == Put(f, k, msg)

add_error_propagates == FALSE

\* the ExecutionError of add_entry is caught by the except clause
add_error_caught == TRUE

\* migrate: try: ldap.add_entry(dn, entry_attrs) ... else: migrated.append(pkey)
add_entry ==
    /\ pc = "add"
    /\ \E accepted \in BOOLEAN :
        /\ accepted => ~dn_exists(ldap_obj_name, pkey)
        /\ calls' = Append(calls, Event("add_entry", ldap_obj_name, pkey, accepted))
        /\ IF accepted
           THEN /\ ldap' = added(ldap_obj_name, pkey, entry_attrs)
                /\ migrated' = [migrated EXCEPT ![ldap_obj_name] = Append(@, pkey)]
                /\ IF post_callback[ldap_obj_name]
                   THEN pc' = "post" /\ UNCHANGED idx
                   ELSE pc' = "loop" /\ idx' = idx + 1
                /\ UNCHANGED <<failed, raised>>
           ELSE /\ IF add_error_caught
                   THEN /\ failed' = [failed EXCEPT ![ldap_obj_name] =
                                        add_failed(@, pkey,
                                                   IF dn_exists(ldap_obj_name, pkey)
                                                   THEN dup_err_msg ELSE oth_err_msg)]
                        /\ pc' = "loop"
                        /\ idx' = idx + 1
                        /\ UNCHANGED raised
                   ELSE /\ Raise("ExecutionError")
                        /\ UNCHANGED <<failed, idx>>
                /\ migrated' = [migrated EXCEPT ![ldap_obj_name] = not_migrated(@, pkey)]
                /\ UNCHANGED ldap
    /\ UNCHANGED <<hook, config, options, ds_ldap, obj, entries, pkey, entry_attrs,
                   context, ret, run, first>>

group_failure_ignored(f, k) == f

\* except errors.ExecutionError, e: failed[pkey] = unicode(_grp_err_msg)
group_failed(f, k) == Put(f, k, grp_err_msg)

\* _post_migrate_user, called after a successful add_entry
post_migrate_user ==
    /\ pc = "post"
    /\ \E accepted \in BOOLEAN :
        /\ calls' = calls \o <<Event("post_callback", "user", pkey, TRUE),
                               Event("add_entry_to_group", "user", pkey, accepted)>>
        /\ IF accepted
           THEN /\ ldap' = [ldap EXCEPT !.def_members = @ \cup {pkey}]
                /\ UNCHANGED failed
           ELSE /\ failed' = [failed EXCEPT !["user"] = group_failed(@, pkey)]
                /\ UNCHANGED ldap
    /\ pc' = "loop"
    /\ idx' = idx + 1
    /\ UNCHANGED <<hook, config, options, ds_ldap, obj, entries, pkey, entry_attrs,
                   context, migrated, ret, raised, run, first>>

\* end of the loop over entries: the next type of migrate_order
next_object ==
    /\ pc = "loop"
    /\ idx > Len(entries)
    /\ obj < Len(migrate_order)
    /\ obj' = obj + 1
    /\ pc' = "search"
    /\ UNCHANGED <<hook, config, options, ldap, ds_ldap, entries, idx, pkey, entry_attrs,
                   context, migrated, failed, ret, raised, calls, run, first>>

\* return (migrated, failed); execute: return dict(result=..., failed=..., enabled=True)
return_report ==
    /\ pc = "loop"
    /\ idx > Len(entries)
    /\ obj = Len(migrate_order)
    /\ ret' = [result |-> migrated, failed |-> failed, enabled |-> TRUE]
    /\ pc' = "done"
    /\ UNCHANGED <<hook, config, options, ldap, ds_ldap, obj, entries, idx, pkey,
                   entry_attrs, context, migrated, failed, raised, calls, run, first>>

\* the command is invoked again on the same source, with the target as it is
execute_again ==
    /\ pc = "done"
    /\ run = 1
    /\ raised = None
    /\ first' = [ret |-> ret, ldap |-> ldap]
    /\ run' = 2
    /\ pc' = "execute"
    /\ obj' = 1
    /\ entries' = <<>>
    /\ idx' = 1
    /\ pkey' = None
    /\ entry_attrs' = EmptyMap
    /\ context' = EmptyMap
    /\ migrated' = EmptyMap
    /\ failed' = EmptyMap
    /\ ret' = NoReport
    /\ calls' = <<>>
    /\ UNCHANGED <<hook, config, options, ldap, ds_ldap, raised>>

Next ==
    \/ execute
    \/ find_entries
    \/ search_reference
    \/ excluded
    \/ pre_migrate_user
    \/ pre_migrate_group
    \/ add_entry
    \/ post_migrate_user
    \/ next_object
    \/ return_report

Spec == Init /\ [][Next]_vars

NextAgain == Next \/ execute_again

SpecAgain == Init /\ [][NextAgain]_vars

TypeOK ==
    /\ pc \in {"execute", "search", "loop", "add", "post", "done"}
    /\ obj \in 1..Len(migrate_order)
    /\ run \in {1, 2}
    /\ (ret # NoReport) => pc = "done" /\ raised = None
    /\ (raised # None) => pc = "done"

-----------------------------------------------------------------------------
\* _pre_migrate_group on its own: one group entry, the options of the call

\* Bound: number of membership values a source group entry holds over its
\* member, uniquemember and memberuid attributes.
MaxMembers == 2

\* no call of execute is in progress
NoRun ==
    /\ config = None
    /\ options = EmptyMap
    /\ ldap = EmptyMap
    /\ ds_ldap = EmptyMap
    /\ pc = "hook"
    /\ obj = 1
    /\ entries = <<>>
    /\ idx = 1
    /\ pkey = None
    /\ entry_attrs = EmptyMap
    /\ context = EmptyMap
    /\ migrated = EmptyMap
    /\ failed = EmptyMap
    /\ ret = NoReport
    /\ raised = None
    /\ calls = <<>>
    /\ run = 1
    /\ first = [ret |-> NoReport, ldap |-> EmptyMap]

run_vars == <<config, options, ldap, ds_ldap, pc, obj, entries, idx, pkey,
              entry_attrs, context, migrated, failed, ret, raised, calls, run,
              first>>

\* Strings are sequences of characters.

\* unicode.lower()
LowerStr(s) == [i \in DOMAIN s |-> Lower(s[i])]

\* unicode.endswith()
EndsWith(s, suffix) ==
    /\ Len(suffix) <= Len(s)
    /\ SubSeq(s, Len(s) - Len(suffix) + 1, Len(s)) = suffix

\* '%s,%s' % (a, b)
Comma(a, b) == a \o <<",">> \o b

\* '%s=%s' % (a, v) on one-character names and values
Rdn(a, v) == <<a, "=", v>>

\* '%s=%s,%s' % (name, value, container)
Format3(name, value, container) == Comma(name \o <<"=">> \o value, container)

\* position of the first c in s, Len(s) + 1 when there is none
IndexOf(s, c) ==
    IF \E i \in DOMAIN s : s[i] = c
    THEN CHOOSE i \in DOMAIN s : s[i] = c /\ \A j \in 1..(i - 1) : s[j] # c
    ELSE Len(s) + 1

\* str2dn(m)[0] raises IndexError: the DN has no RDN
no_rdn(m) == m = <<>>

\* rdnval = str2dn(m)[0][0][1]: the value of the leading RDN
rdnval(m) == SubSeq(m, IndexOf(m, "=") + 1, IndexOf(m, ",") - 1)

user_primary_key == <<"u", "i", "d">>
group_primary_key == <<"c", "n">>
container_user == <<"cn=users,cn=accounts">>
container_group == <<"cn=groups,cn=accounts">>
basedn == <<"dc=ipa">>

\* ldap.normalize_dn(dn): the DN completed with the base DN of the target
normalize_dn(dn) == Comma(dn, basedn)

\* values of the usercontainer and groupcontainer options, of the base DN of
\* the source, and DNs a member attribute of the source can hold
UserContainers == {Rdn("o", "p"), Rdn("o", "P")}
GroupContainers == {Rdn("o", "g"), Comma(Rdn("o", "g"), Rdn("o", "p"))}
BaseDNs == {Rdn("d", "x"), Rdn("d", "X")}
MemberDNs ==
    { Comma(Rdn("u", "a"), Comma(Rdn("o", "p"), Rdn("d", "x"))),
      Comma(Rdn("U", "A"), Comma(Rdn("O", "P"), Rdn("D", "X"))),
      Comma(Rdn("c", "b"), Comma(Rdn("o", "g"), Rdn("d", "x"))),
      Comma(Rdn("c", "c"), Comma(Rdn("o", "g"), Comma(Rdn("o", "p"), Rdn("d", "x")))),
      Comma(Rdn("c", "d"), Comma(Rdn("o", "z"), Rdn("d", "x"))),
      <<>> }
MemberUids == {<<"a">>, <<"B">>}

\* entry_attrs of a source entry: an attribute is present iff it has values
Attrs(member, uniquemember, memberuid, objectclass) ==
    LET a == IF member = <<>> THEN EmptyMap ELSE Put(EmptyMap, "member", member)
        b == IF uniquemember = <<>> THEN a ELSE Put(a, "uniquemember", uniquemember)
        c == IF memberuid = <<>> THEN b ELSE Put(b, "memberuid", memberuid)
    IN Put(c, "objectclass", objectclass)

\* entry_attrs.setdefault(attr, [])
Get(attrs, attr) == IF attr \in DOMAIN attrs THEN attrs[attr] ELSE <<>>

\* del entry_attrs[attr]
Del(attrs, attr) == [x \in DOMAIN attrs \ {attr} |-> attrs[x]]

InitPreMigrateGroup ==
    /\ NoRun
    /\ \E uc \in UserContainers, gc \in GroupContainers, base \in BaseDNs,
          schema \in Range(supported_schemas) \cup {"RFC9999"},
          abl \in {{}, {"memberuid"}}, ocbl \in {{}, {<<"posixgroup">>}},
          m \in SeqsUpTo(MemberDNs, MaxMembers) :
        \E u \in SeqsUpTo(MemberDNs, MaxMembers - Len(m)) :
        \E v \in SeqsUpTo(MemberUids, MaxMembers - Len(m) - Len(u)) :
        /\ hook = [fn |-> "_pre_migrate_group", at |-> "migrate",
                   options |-> [usercontainer |-> uc, groupcontainer |-> gc,
                                schema |-> schema, attr_blacklist |-> abl,
                                oc_blacklist |-> ocbl],
                   ds_base_dn |-> base,
                   search_bases |-> [user |-> <<>>, group |-> <<>>],
                   dn |-> Format3(group_primary_key, <<"g">>, container_group),
                   source_attrs |-> Put(Attrs(m, u, v, <<<<"posixgroup">>, <<"top">>>>),
                                        "memberofindirect", <<<<"from source">>>>),
                   entry_attrs |-> Put(Attrs(m, u, v, <<<<"posixgroup">>, <<"top">>>>),
                                       "memberofindirect", <<<<"from source">>>>),
                   failed |-> EmptyMap,
                   raised |-> None,
                   returned |-> <<>>]

\* migrate_ds._get_search_bases: container option and base DN, as given
get_search_bases(o, ds_base_dn) ==
    [user |-> Comma(o.usercontainer, ds_base_dn),
     group |-> Comma(o.groupcontainer, ds_base_dn)]

\* migrate computes the search bases and hands the entry to the pre-callback
migrate_group_entry ==
    /\ hook.fn = "_pre_migrate_group"
    /\ hook.at = "migrate"
    /\ hook' = [hook EXCEPT !.at = "call",
                            !.search_bases = get_search_bases(hook.options, hook.ds_base_dn)]
    /\ UNCHANGED run_vars

unknown_member_kept(m) == <<m>>

\* else: api.log.error(...); continue
unknown_member(m) == <<>>

convert_member_group_first(m, search_bases) ==
    IF no_rdn(m) THEN <<>>
    ELSE IF EndsWith(LowerStr(m), search_bases.group)
    THEN <<normalize_dn(Format3(group_primary_key, rdnval(m), container_group))>>
    ELSE IF EndsWith(LowerStr(m), search_bases.user)
    THEN <<normalize_dn(Format3(user_primary_key, rdnval(m), container_user))>>
    ELSE unknown_member(m)

\* one pass of the loop of convert_members_rfc2307bis: what m adds to new_members
convert_member(m, search_bases) ==
    IF no_rdn(m) THEN <<>>
    ELSE IF EndsWith(LowerStr(m), search_bases.user)
    THEN <<normalize_dn(Format3(user_primary_key, rdnval(m), container_user))>>
    ELSE IF EndsWith(LowerStr(m), search_bases.group)
    THEN <<normalize_dn(Format3(group_primary_key, rdnval(m), container_group))>>
    ELSE unknown_member(m)

RECURSIVE new_members(_, _)
new_members(members, search_bases) ==
    IF members = <<>> THEN <<>>
    ELSE convert_member(Head(members), search_bases)
             \o new_members(Tail(members), search_bases)

convert_members_rfc2307bis(attrs, member_attr, search_bases, overwrite) ==
    LET deleted == Del(attrs, member_attr)
        cleared == IF overwrite THEN Put(deleted, "member", <<>>) ELSE deleted
    IN Put(cleared, "member",
           cleared["member"] \o new_members(Get(attrs, member_attr), search_bases))

convert_members_rfc2307_appending(attrs, member_attr) ==
    Put(attrs, "member",
        Get(attrs, "member")
          \o [i \in DOMAIN Get(attrs, member_attr) |->
                normalize_dn(Format3(user_primary_key, Get(attrs, member_attr)[i],
                                     container_user))])

convert_members_rfc2307(attrs, member_attr) ==
    Put(attrs, "member",
        [i \in DOMAIN Get(attrs, member_attr) |->
           normalize_dn(Format3(user_primary_key, Get(attrs, member_attr)[i],
                                container_user))])

uniquemember_overwrites == TRUE

\* convert_members_rfc2307bis('uniquemember', search_bases): overwrite=False
uniquemember_overwrite == FALSE

keep_attributes(attrs, attr_blacklist, oc_blacklist) ==
    IF "objectclass" \in DOMAIN attrs
    THEN [attrs EXCEPT !.objectclass = SelectSeq(@, LAMBDA oc : oc \notin oc_blacklist)]
    ELSE attrs

\* the attributes and object classes that are not migrated
strip(attrs, attr_blacklist, oc_blacklist) ==
    LET kept == [a \in DOMAIN attrs \ attr_blacklist |-> attrs[a]]
    IN IF "objectclass" \in DOMAIN kept
       THEN [kept EXCEPT !.objectclass = SelectSeq(@, LAMBDA oc : oc \notin oc_blacklist)]
       ELSE kept

group_attr_blacklist == {"memberofindirect", "memberindirect"}

pre_migrate_group_callback ==
    /\ hook.fn = "_pre_migrate_group"
    /\ hook.at = "call"
    /\ LET unique == Put(hook.entry_attrs, "ipauniqueid", <<<<"autogenerate">>>>)
           bis == convert_members_rfc2307bis(
                      convert_members_rfc2307bis(unique, "member", hook.search_bases, TRUE),
                      "uniquemember", hook.search_bases, uniquemember_overwrite)
           stripped(attrs) == strip(attrs,
                                    group_attr_blacklist \cup hook.options.attr_blacklist,
                                    hook.options.oc_blacklist)
       IN IF hook.options.schema = "RFC2307bis"
          THEN hook' = [hook EXCEPT !.at = "return", !.entry_attrs = stripped(bis),
                                    !.returned = hook.dn]
          ELSE IF hook.options.schema = "RFC2307"
          THEN hook' = [hook EXCEPT !.at = "return",
                          !.entry_attrs = stripped(convert_members_rfc2307(unique, "memberuid")),
                          !.returned = hook.dn]
          ELSE hook' = [hook EXCEPT !.at = "return", !.entry_attrs = unique,
                                    !.raised = "ValueError"]
    /\ UNCHANGED run_vars

NextPreMigrateGroup ==
    \/ migrate_group_entry
    \/ pre_migrate_group_callback

SpecPreMigrateGroup == InitPreMigrateGroup /\ [][NextPreMigrateGroup]_vars

-----------------------------------------------------------------------------
\* The home directory that _pre_migrate_user gives an account

\* Bound: length of the ipahomesrootdir value of the configuration.
MaxRootLen == 3

HomeRoots == SeqsUpTo({"/", "h", "o"}, MaxRootLen)
Pkeys == {<<"j">>, <<"j", "d">>}

\* config.get('ipahomesrootdir', ('/home', ))[0]
ipahomesrootdir(cfg) ==
    IF "ipahomesrootdir" \in DOMAIN cfg THEN cfg.ipahomesrootdir[1]
    ELSE <<"/", "h", "o", "m", "e">>

\* unicode.replace('//', '/'): one pass from the left over non-overlapping matches
RECURSIVE replace(_)
replace(s) ==
    IF Len(s) < 2 THEN s
    ELSE IF s[1] = "/" /\ s[2] = "/"
    THEN <<"/">> \o replace(SubSeq(s, 3, Len(s)))
    ELSE <<s[1]>> \o replace(Tail(s))

\* unicode.rstrip('/')
RECURSIVE rstrip(_)
rstrip(s) ==
    IF s # <<>> /\ s[Len(s)] = "/" THEN rstrip(SubSeq(s, 1, Len(s) - 1)) ELSE s

\* '%s/%s' % (homes_root, pkey), then .replace('//', '/').rstrip('/')
home_dir(homes_root, key) == rstrip(replace(homes_root \o <<"/">> \o key))

InitHomeDirectory ==
    /\ NoRun
    /\ \E cfg \in {EmptyMap} \cup { Put(EmptyMap, "ipahomesrootdir", <<r>>) : r \in HomeRoots },
          key \in Pkeys,
          attrs \in {EmptyMap, Put(EmptyMap, "homedirectory", <<<<"/", "o">>>>)} :
        hook = [fn |-> "_pre_migrate_user", at |-> "call", config |-> cfg,
                pkey |-> key, source_attrs |-> attrs, entry_attrs |-> attrs]

\* if 'homedirectory' not in entry_attrs: ... entry_attrs['homedirectory'] = home_dir
set_homedirectory ==
    /\ hook.fn = "_pre_migrate_user"
    /\ hook.at = "call"
    /\ hook' = [hook EXCEPT
                  !.at = "return",
                  !.entry_attrs =
                      IF "homedirectory" \notin DOMAIN hook.entry_attrs
                      THEN Put(@, "homedirectory",
                               home_dir(ipahomesrootdir(hook.config), hook.pkey))
                      ELSE @]
    /\ UNCHANGED run_vars

NextHomeDirectory == set_homedirectory

SpecHomeDirectory == InitHomeDirectory /\ [][NextHomeDirectory]_vars

-----------------------------------------------------------------------------
\* _pre_migrate_user on its own: one account entry, the options of the call,
\* the configuration and the answers of the target

\* the orders list(set(...)) can give the elements of a set
Orders(S) ==
    { s \in [1..Cardinality(S) -> S] : \A i, j \in DOMAIN s : i # j => s[i] # s[j] }

\* config.get(ldap_obj.object_class_config, ldap_obj.object_class)
\*     + [o.lower() for o in entry_attrs['objectclass']], as a set
merged_object_classes(defaults, source) ==
    Range(defaults) \cup { LowerStr(o) : o \in Range(source) }

\* user.object_class, used when the configuration names no classes
user_object_class == <<<<"posixaccount">>>>

\* config.get('ipauserobjectclasses', user.object_class)
ipauserobjectclasses(cfg) ==
    IF "ipauserobjectclasses" \in DOMAIN cfg THEN cfg.ipauserobjectclasses
    ELSE user_object_class

\* u'%s@%s' % (pkey, api.env.realm)
principal(key) == key \o <<"@", "REALM">>

\* attributes a source account entry can hold besides its object classes, each
\* with the one value it has
UserSourceAttrs ==
    { [a \in present |-> <<"from source">>] :
        present \in SUBSET {"homedirectory", "gidnumber", "krbprincipalkey",
                            "krbprincipalname"} }

InitPreMigrateUser ==
    /\ NoRun
    /\ \E cfg \in {EmptyMap,
                   Put(EmptyMap, "ipauserobjectclasses", <<<<"top">>, <<"posixAccount">>>>)},
          abl \in {{}, {"krbPrincipalName"}, {"gidnumber"}, {"homedirectory"}},
          ocbl \in {{}, {<<"posixAccount">>}},
          attrs \in UserSourceAttrs,
          oc \in {<<<<"posixAccount">>>>, <<<<"person">>>>},
          ctx \in {EmptyMap, [def_group_dn |-> ipadefaultprimarygroup,
                              def_group_gid |-> <<def_group_gid>>]},
          found \in BOOLEAN, exists \in BOOLEAN :
        hook = [fn |-> "_pre_migrate_user", at |-> "migrate",
                config |-> cfg,
                options |-> [attr_blacklist |-> abl, oc_blacklist |-> ocbl],
                kwargs |-> [attr_blacklist |-> {}, oc_blacklist |-> {}],
                target |-> [def_group_found |-> found, principal_exists |-> exists],
                pkey |-> <<"j">>,
                dn |-> Format3(user_primary_key, <<"j">>, container_user),
                source_attrs |-> Put(attrs, "objectclass", oc),
                entry_attrs |-> Put(attrs, "objectclass", oc),
                ctx |-> ctx,
                failed |-> EmptyMap,
                raised |-> None,
                returned |-> <<>>]

\* migrate hands the entry to the pre-callback: the blacklists as lower-cased
\* by normalize_options, the object classes merged with those of the target
migrate_user_entry ==
    /\ hook.fn = "_pre_migrate_user"
    /\ hook.at = "migrate"
    /\ \E classes \in Orders(merged_object_classes(ipauserobjectclasses(hook.config),
                                                   hook.entry_attrs.objectclass)) :
          hook' = [hook EXCEPT
                     !.at = "call",
                     !.kwargs = [attr_blacklist |-> { Lower(a) : a \in hook.options.attr_blacklist },
                                 oc_blacklist |-> { LowerStr(c) : c \in hook.options.oc_blacklist }],
                     !.entry_attrs = Put(@, "objectclass", classes)]
    /\ UNCHANGED run_vars

overwrite(attrs, attr, value) == Put(attrs, attr, value)

\* entry_attrs.setdefault(attr, value)
setdefault(attrs, attr, value) ==
    IF attr \in DOMAIN attrs THEN attrs ELSE Put(attrs, attr, value)

user_attr_blacklist == {"krbprincipalkey", "memberofindirect", "memberindirect"}

pre_migrate_user_callback ==
    /\ hook.fn = "_pre_migrate_user"
    /\ hook.at = "call"
    /\ LET lookup == "def_group_dn" \notin DOMAIN hook.ctx
           ctx == IF lookup
                  THEN [def_group_dn |-> ipadefaultprimarygroup,
                        def_group_gid |-> <<def_group_gid>>]
                  ELSE hook.ctx
           unique == Put(hook.entry_attrs, "ipauniqueid", <<"autogenerate">>)
           home == setdefault(unique, "homedirectory",
                              home_dir(ipahomesrootdir(hook.config), hook.pkey))
           gid == setdefault(home, "gidnumber", ctx.def_group_gid)
           stripped == strip(gid, user_attr_blacklist \cup hook.kwargs.attr_blacklist,
                             hook.kwargs.oc_blacklist)
       IN IF lookup /\ ~hook.target.def_group_found
          THEN hook' = [hook EXCEPT !.at = "return", !.raised = "NotFound",
                          !.ctx = Put(@, "def_group_dn", ipadefaultprimarygroup)]
          ELSE IF hook.target.principal_exists
          THEN hook' = [hook EXCEPT !.at = "return", !.ctx = ctx,
                          !.entry_attrs = stripped,
                          !.failed = Put(@, hook.pkey, krb_err_msg),
                          !.returned = hook.dn]
          ELSE hook' = [hook EXCEPT !.at = "return", !.ctx = ctx,
                          !.entry_attrs = Put(stripped, "krbprincipalname",
                                              principal(hook.pkey)),
                          !.returned = hook.dn]
    /\ UNCHANGED run_vars

NextPreMigrateUser ==
    \/ migrate_user_entry
    \/ pre_migrate_user_callback

\* either pre-callback on its own
InitPreMigrate == InitPreMigrateUser \/ InitPreMigrateGroup

NextPreMigrate == NextPreMigrateUser \/ NextPreMigrateGroup

SpecPreMigrate == InitPreMigrate /\ [][NextPreMigrate]_vars

-----------------------------------------------------------------------------
\* Vocabulary of the properties

\* the key is in the migrated list or in the failure map of the type
Categorized(t, k) ==
    /\ t \in DOMAIN migrated
    /\ k \in Range(migrated[t]) \/ k \in DOMAIN failed[t]

\* entries of the source that migrate has to process: they have a DN and
\* their lower-cased key is not in the exclusion set of the type
ToProcess(t) ==
    { e \in Range(ds_ldap[t].entries) :
        e.dn # None /\ Lower(e.key) \notin options[exclude_option[t]] }

SearchReferences(t) == { e \in Range(ds_ldap[t].entries) : e.dn = None }

GroupCall(c) ==
    c.obj = "group" /\ c.op \in {"ds_find_entries", "pre_callback", "add_entry"}

\* the group entry the loop is about to hand to _pre_migrate_group
AtGroupEntry ==
    /\ in_loop
    /\ ldap_obj_name = "group"
    /\ entry.dn # None
    /\ Lower(entry.key) \notin options.exclude_groups

-----------------------------------------------------------------------------
\* C1: the source is searched for groups, and a group entry is pre-transformed
\* or inserted, only after the search for accounts, after the last call made
\* for an account, and when every account entry the search returned has
\* finished: a search reference is in the failure map, an entry to process is
\* in the migrated list or the failure map.
C1_AccountsBeforeGroups ==
    \A j \in DOMAIN calls : GroupCall(calls[j]) =>
        /\ \E i \in 1..(j - 1) :
              calls[i].op = "ds_find_entries" /\ calls[i].obj = "user"
        /\ \A i \in (j + 1)..Len(calls) : calls[i].obj # "user"
        /\ \A e \in SearchReferences("user") : e.key \in DOMAIN failed["user"]
        /\ \A e \in ToProcess("user") : Categorized("user", Lower(e.key))

C1_Witness ==
    \E i, j \in DOMAIN calls :
        /\ i < j
        /\ calls[i].op = "add_entry" /\ calls[i].obj = "user"
        /\ calls[j].op = "add_entry" /\ calls[j].obj = "group"

\* C2 as stated: when a group entry is processed, every account its
\* membership list names is in the account migrated list or failure map.
C2_Original ==
    AtGroupEntry =>
        \A m \in Range(entry.member) : Categorized("user", Lower(m))

\* C2 amended: when a group entry is processed, every account its membership
\* list names that the account search returned with a DN and that is not
\* excluded is in the account migrated list or in the account failure map.
C2_ReturnedMembersCategorized ==
    AtGroupEntry =>
        \A m \in Range(entry.member) :
            (\E e \in ToProcess("user") : Lower(e.key) = Lower(m))
                => Categorized("user", Lower(m))

C2_Witness ==
    /\ AtGroupEntry
    /\ \E m \in Range(entry.member) :
          /\ \E e \in ToProcess("user") : Lower(e.key) = Lower(m)
          /\ Categorized("user", Lower(m))

\* C3: when migrate returns a report, a key of the exclusion set of a type is
\* neither in the migrated list nor in the failure map of the type, and no
\* pre-transform, principal lookup or insertion was made for it.
C3_ExcludedNowhere ==
    (Returned /\ ret.enabled) =>
        \A t \in Range(migrate_order) : \A k \in options[exclude_option[t]] :
            /\ k \notin Range(ret.result[t])
            /\ k \notin DOMAIN ret.failed[t]
            /\ \A i \in DOMAIN calls :
                  ~(/\ calls[i].obj = t
                    /\ calls[i].key = k
                    /\ calls[i].op \in {"pre_callback", "find_entry_by_attr",
                                        "add_entry", "post_callback",
                                        "add_entry_to_group"})

C3_Witness ==
    /\ Returned /\ ret.enabled
    /\ \E t \in Range(migrate_order) :
          /\ \E e \in Range(ds_ldap[t].entries) :
                e.dn # None /\ Lower(e.key) \in options[exclude_option[t]]
          /\ ToProcess(t) # {}

\* the step made a directory call that the directory rejected
Rejected(op) ==
    /\ Len(calls') > Len(calls)
    /\ calls'[Len(calls')].op = op
    /\ ~calls'[Len(calls')].ok

\* the step made a directory call that the directory accepted
Accepted(op) ==
    /\ Len(calls') > Len(calls)
    /\ calls'[Len(calls')].op = op
    /\ calls'[Len(calls')].ok

\* the account entry the loop is about to hand to _pre_migrate_user
AtUserEntry ==
    /\ in_loop
    /\ ldap_obj_name = "user"
    /\ entry.dn # None
    /\ Lower(entry.key) \notin options.exclude_users

HasReason(f, t, k, msg) ==
    /\ t \in DOMAIN f
    /\ k \in DOMAIN f[t]
    /\ f[t][k] = msg

\* C4 as stated: no insertion is attempted for an account whose principal
\* already exists in the target.
C4_Original ==
    (pc = "add" /\ ldap_obj_name = "user") => pkey \notin ldap.principals

\* C4 amended: when the principal of an account already exists in the
\* target, the pre-transform records the failure for the key, leaves the
\* principal attribute off the entry and returns the dn, so the insertion is
\* attempted; when the target accepts it the key is appended to the migrated
\* list, stays in the failure map, and the post-transform hook runs.
C4_CollisionRecordedInsertionAttempted ==
    [][ /\ (AtUserEntry /\ Lower(entry.key) \in ldap.principals /\ raised' = None)
            => /\ HasReason(failed', "user", Lower(entry.key), krb_err_msg)
               /\ "krbprincipalname" \notin DOMAIN entry_attrs'
               /\ pkey' = Lower(entry.key)
               /\ pc' = "add"
        /\ (pc = "add" /\ ldap_obj_name = "user" /\ pkey \in ldap.principals
               /\ Accepted("add_entry"))
            => /\ migrated'["user"] = Append(migrated["user"], pkey)
               /\ pkey \in DOMAIN failed'["user"]
               /\ pkey \in ldap'.users
               /\ pc' = "post"
      ]_vars

C4_Witness ==
    /\ pc = "post"
    /\ pkey \in ldap.principals
    /\ "krbprincipalname" \notin DOMAIN entry_attrs
    /\ HasReason(failed, "user", pkey, krb_err_msg)
    /\ pkey \in Range(migrated["user"])

\* C5 as stated: when the default group is missing from the target, a call
\* that searched the account container ends with an error, not a report.
C5_Original ==
    (/\ ipadefaultprimarygroup \notin ldap.groups
     /\ \E i \in DOMAIN calls :
           calls[i].op = "ds_find_entries" /\ calls[i].obj = "user" /\ calls[i].ok
     /\ pc = "done")
        => raised # None

\* C5 amended: while the default group is missing from the target no account
\* is looked up by principal, inserted or reported as migrated; and when the
\* account search returned an entry to process (with a DN, not excluded), the
\* call fails with NotFound in the pre-transform of the first such entry and
\* returns no report.
C5_NoAccountWithoutDefaultGroup ==
    ipadefaultprimarygroup \notin ldap.groups =>
        /\ \A i \in DOMAIN calls :
              ~(calls[i].obj = "user" /\
                calls[i].op \in {"find_entry_by_attr", "add_entry", "add_entry_to_group"})
        /\ "user" \in DOMAIN migrated => migrated["user"] = <<>>
        /\ Cardinality({ i \in DOMAIN calls :
                           calls[i].op = "pre_callback" /\ calls[i].obj = "user" }) <= 1
        /\ (pc = "done" /\ ToProcess("user") # {}) =>
              /\ raised = "NotFound"
              /\ ret = NoReport
              /\ calls[Len(calls)].op = "get_entry"
              /\ ~calls[Len(calls)].ok

C5_Witness ==
    /\ ipadefaultprimarygroup \notin ldap.groups
    /\ pc = "done"
    /\ raised = "NotFound"
    /\ calls[Len(calls)].op = "get_entry"
    /\ Len(ds_ldap["user"].entries) = 2
    /\ ToProcess("user") # {}

\* C6: a second call on the same source, against the target as the first call
\* left it, reports every key of a migrated list of the first call in the
\* failure map of its type and not in the migrated list, and the target
\* accepts no insertion and no default-group membership for such a key.
C6_SecondRunReportsFailures ==
    (run = 2 /\ Returned /\ ret.enabled) =>
        \A t \in DOMAIN first.ret.result : \A k \in Range(first.ret.result[t]) :
            /\ k \in DOMAIN ret.failed[t]
            /\ k \notin Range(ret.result[t])
            /\ k \in (IF t = "user" THEN ldap.users ELSE ldap.groups)
            /\ \A i \in DOMAIN calls :
                  ~(/\ calls[i].obj = t
                    /\ calls[i].key = k
                    /\ calls[i].op \in {"add_entry", "add_entry_to_group"}
                    /\ calls[i].ok)

C6_Witness ==
    /\ run = 2
    /\ Returned
    /\ ret.enabled
    /\ \A t \in Range(migrate_order) : first.ret.result[t] # <<>>

\* C7: when the insertion of an account was accepted and adding it to the
\* default group is rejected, the key is in the migrated list and in the
\* failure map with the group-membership message, the entry stays in the
\* target, and the loop goes on with the next entry.
C7_GroupFailureReportedTwice ==
    [][ (pc = "post" /\ Rejected("add_entry_to_group"))
            => /\ pkey \in Range(migrated'["user"])
               /\ HasReason(failed', "user", pkey, grp_err_msg)
               /\ pkey \in ldap'.users
               /\ entries' = entries
               /\ idx' = idx + 1
               /\ pc' = "loop"
               /\ raised' = None
      ]_vars

C7_Witness ==
    /\ pc = "loop"
    /\ calls # <<>>
    /\ calls[Len(calls)].op = "add_entry_to_group"
    /\ ~calls[Len(calls)].ok
    /\ pkey \in Range(migrated["user"])
    /\ HasReason(failed, "user", pkey, grp_err_msg)
    /\ idx <= Len(entries)

RejectedInsertion == \E i \in DOMAIN calls : calls[i].op = "add_entry" /\ ~calls[i].ok

\* C8 as stated: a call in which the target rejected an insertion ends with
\* a report.
C8_Original ==
    (pc = "done" /\ RejectedInsertion) => Returned

\* C8 amended: a rejected insertion records the key in the failure map of the
\* type with the error text, appends nothing to the migrated list, leaves the
\* target alone, runs no post-transform hook and moves to the next entry of
\* the batch; the call then ends with a report unless a later type hits a
\* fatal condition (its container is missing without the continue option, or
\* the schema is not supported).
C8_RejectionIsolated ==
    [][ /\ (pc = "add" /\ Rejected("add_entry"))
            => /\ HasReason(failed', ldap_obj_name, pkey, dup_err_msg) \/
                  HasReason(failed', ldap_obj_name, pkey, oth_err_msg)
               /\ migrated' = migrated
               /\ ldap' = ldap
               /\ entries' = entries
               /\ obj' = obj
               /\ idx' = idx + 1
               /\ pc' = "loop"
               /\ raised' = None
        /\ (RejectedInsertion /\ raised = None /\ raised' # None)
            => /\ ldap_obj_name = "group"
               /\ \A i \in DOMAIN calls : calls[i].op = "add_entry" => calls[i].obj = "user"
               /\ \/ raised' = "NotFound" /\ Rejected("ds_find_entries")
                  \/ raised' = "ValueError" /\ pc = "loop"
      ]_vars

C8_Witness ==
    /\ Returned
    /\ \E i, j \in DOMAIN calls :
          /\ i < j
          /\ calls[i].op = "add_entry" /\ ~calls[i].ok /\ calls[i].obj = "user"
          /\ calls[j].op = "add_entry" /\ calls[j].ok /\ calls[j].obj = "group"

\* C9: when ipamigrationenabled is FALSE or absent, execute returns empty
\* result and failed maps with enabled = False, without a connect or search
\* on the source and without an insertion on the target.
C9_DisabledDoesNothing ==
    (config.ipamigrationenabled \in {"FALSE", None} /\ pc # "execute") =>
        /\ Returned
        /\ DOMAIN ret.result = {}
        /\ DOMAIN ret.failed = {}
        /\ ret.enabled = FALSE
        /\ \A i \in DOMAIN calls :
              calls[i].op \notin {"ds_connect", "ds_find_entries", "add_entry",
                                  "add_entry_to_group"}
        /\ ldap = first.ldap
        /\ \A t \in Range(migrate_order) : ~ds_ldap[t].searched

C9_Witness ==
    /\ config.ipamigrationenabled \in {"FALSE", None}
    /\ pc = "done"
    /\ ret.enabled = FALSE

\* C10: a search result without a DN is recorded in the failure map of the
\* type under its referral with the fixed message, by a step that makes no
\* pre-transform, no directory call and no change to the migrated list or
\* the target; in a report every search reference has that reason and is in
\* no migrated list.
C10_ReferenceAlwaysFails ==
    /\ [][ (in_loop /\ entry.dn = None)
              => /\ HasReason(failed', ldap_obj_name, entry.key, ref_err_msg)
                 /\ migrated' = migrated
                 /\ calls' = calls
                 /\ ldap' = ldap
                 /\ idx' = idx + 1
                 /\ pc' = "loop"
         ]_vars
    /\ [](Returned /\ ret.enabled =>
            \A t \in Range(migrate_order) : \A e \in SearchReferences(t) :
                /\ HasReason(ret.failed, t, e.key, ref_err_msg)
                /\ e.key \notin Range(ret.result[t]))

C10_Witness ==
    /\ Returned
    /\ ret.enabled
    /\ \E t \in Range(migrate_order) : \E e \in SearchReferences(t) :
          /\ HasReason(ret.failed, t, e.key, ref_err_msg)
          /\ ret.result[t] # <<>>

\* the search of a container of migrate_order that the source does not have
MissingContainer(c) ==
    c.op = "ds_find_entries" /\ c.obj \in Range(migrate_order) /\ ~c.ok

Last(s) == s[Len(s)]

C12_MissingContainerAborts ==
    /\ [][ (pc = "search" /\ ~options.continue /\ Rejected("ds_find_entries"))
              => /\ raised' = "NotFound"
                 /\ pc' = "done"
                 /\ ret' = NoReport
                 /\ ldap' = ldap
         ]_vars
    /\ [](~options.continue =>
            \A i \in DOMAIN calls : MissingContainer(calls[i]) =>
                /\ i = Len(calls)
                /\ pc = "done"
                /\ raised = "NotFound"
                /\ ret = NoReport
                /\ \A t \in Range(migrate_order) :
                      t # calls[i].obj /\ ds_ldap[t].searched => ds_ldap[t].exists)

C12_Witness ==
    /\ pc = "done"
    /\ raised = "NotFound"
    /\ ~options.continue
    /\ MissingContainer(Last(calls))
    /\ Last(calls).obj = "group"
    /\ migrated["user"] # <<>>
    /\ ret = NoReport

\* C13 as stated: a call that searched the group container under a schema
\* that is neither RFC2307bis nor RFC2307 does not return a report.
C13_Original ==
    (/\ options.schema \notin Range(supported_schemas)
     /\ \E i \in DOMAIN calls :
           calls[i].op = "ds_find_entries" /\ calls[i].obj = "group" /\ calls[i].ok
     /\ pc = "done")
        => raised # None

\* C13 amended: under a schema that is neither RFC2307bis nor RFC2307 no
\* group is inserted or reported as migrated; and when the group search
\* returned an entry to process (with a DN, not excluded), the call fails
\* with ValueError in the pre-transform of the first such entry and returns
\* no report.
C13_UnsupportedSchemaFatal ==
    options.schema \notin Range(supported_schemas) =>
        /\ \A i \in DOMAIN calls :
              ~(calls[i].obj = "group" /\ calls[i].op = "add_entry")
        /\ "group" \in DOMAIN migrated => migrated["group"] = <<>>
        /\ Cardinality({ i \in DOMAIN calls :
                           calls[i].op = "pre_callback" /\ calls[i].obj = "group" }) <= 1
        /\ (pc = "done" /\ ToProcess("group") # {}) =>
              /\ raised = "ValueError"
              /\ ret = NoReport
              /\ Last(calls).op = "pre_callback"
              /\ Last(calls).obj = "group"

C13_Witness ==
    /\ options.schema \notin Range(supported_schemas)
    /\ pc = "done"
    /\ raised = "ValueError"
    /\ migrated["user"] # <<>>
    /\ Len(ds_ldap["group"].entries) = 1

\* what ends a call with an exception: the last call it made
AbortCauses ==
    [op : {"ds_connect", "ds_find_entries", "get_entry"},
     obj : {None, "namingcontexts", "user", "group"},
     key : {None, ipadefaultprimarygroup}, ok : {FALSE}]

DefGroupLookups == { i \in DOMAIN calls : calls[i].op = "get_entry" }

\* C20: in a call the default group is looked up in the target at most once,
\* right after the first pre-transform of an account and before any
\* insertion; from then on its DN and gid are in the context, where every
\* later account pre-transform and post-transform finds them.
C20_DefaultGroupLookedUpOnce ==
    /\ Cardinality(DefGroupLookups) <= 1
    /\ \A i \in DefGroupLookups :
          /\ i > 1
          /\ calls[i - 1].op = "pre_callback" /\ calls[i - 1].obj = "user"
          /\ \A j \in 1..(i - 1) :
                calls[j].op \notin {"pre_callback", "add_entry", "add_entry_to_group",
                                    "find_entry_by_attr"} \/ j = i - 1
    /\ \A j \in DOMAIN calls :
          (calls[j].op = "pre_callback" /\ calls[j].obj = "user")
              => \E i \in DefGroupLookups : i <= j + 1
    /\ (ldap_obj_name = "user" /\ pc \in {"add", "post"}) =>
          /\ DOMAIN context = {"def_group_dn", "def_group_gid"}
          /\ context["def_group_dn"] = ipadefaultprimarygroup
          /\ context["def_group_gid"] = def_group_gid

C20_Witness ==
    /\ Cardinality(DefGroupLookups) = 1
    /\ Cardinality({ j \in DOMAIN calls :
                       calls[j].op = "add_entry_to_group" /\ calls[j].ok }) = 2

-----------------------------------------------------------------------------
\* Vocabulary of the properties of _pre_migrate_group

\* the pre-callback has returned (or raised) under the given schema
AtGroupReturn(schema) ==
    /\ hook.fn = "_pre_migrate_group"
    /\ hook.at = "return"
    /\ hook.options.schema = schema

\* the DN lies under the search base, whatever the letter case of the DN
InContainer(m, base) == m # <<>> /\ EndsWith(LowerStr(m), base)

\* the reference of the target for a member DN of the source
RefOf(m, bases) ==
    IF InContainer(m, bases.user)
    THEN <<"u", "i", "d", "=">> \o rdnval(m) \o <<",", "cn=users,cn=accounts", ",", "dc=ipa">>
    ELSE <<"c", "n", "=">> \o rdnval(m) \o <<",", "cn=groups,cn=accounts", ",", "dc=ipa">>

\* the member DNs that lie under one of the two search bases, converted, in order
Converted(members, bases) ==
    LET known == SelectSeq(members, LAMBDA m : InContainer(m, bases.user)
                                               \/ InContainer(m, bases.group))
    IN [i \in DOMAIN known |-> RefOf(known[i], bases)]

\* the member DNs that lie under neither search base
Unknown(members, bases) ==
    SelectSeq(members, LAMBDA m : /\ m # <<>>
                                  /\ ~InContainer(m, bases.user)
                                  /\ ~InContainer(m, bases.group))

SourceMember == Get(hook.source_attrs, "member")
SourceUniquemember == Get(hook.source_attrs, "uniquemember")
SourceMemberuid == Get(hook.source_attrs, "memberuid")
ResultMember == Get(hook.entry_attrs, "member")

-----------------------------------------------------------------------------
C18_CaseInsensitiveSuffixMatch ==
    AtGroupReturn("RFC2307bis") =>
        LET folded == [user |-> LowerStr(hook.search_bases.user),
                       group |-> LowerStr(hook.search_bases.group)]
        IN ResultMember = Converted(SourceMember, folded)
                            \o Converted(SourceUniquemember, folded)

\* C19: under RFC2307bis a member DN under neither search base is left out of
\* the member attribute; the pre-callback records no failure, raises nothing
\* and returns the DN, and the converted references keep their order.
C19_UnknownMemberDropped ==
    AtGroupReturn("RFC2307bis") =>
        LET all == SourceMember \o SourceUniquemember
        IN /\ hook.raised = None
           /\ hook.failed = EmptyMap
           /\ hook.returned = hook.dn
           /\ ResultMember = Converted(all, hook.search_bases)
           /\ \A i \in DOMAIN ResultMember :
                 ResultMember[i] \notin Range(Unknown(all, hook.search_bases))
           /\ Len(ResultMember) + Len(Unknown(all, hook.search_bases))
                 + Len(SelectSeq(all, no_rdn)) = Len(all)

\* a DN under neither search base ahead of one that is converted
C19_Witness ==
    /\ AtGroupReturn("RFC2307bis")
    /\ Len(SourceMember) = 2
    /\ Unknown(SourceMember, hook.search_bases) = <<SourceMember[1]>>
    /\ ResultMember = <<RefOf(SourceMember[2], hook.search_bases)>>
    /\ hook.returned = hook.dn

-----------------------------------------------------------------------------
\* the home directory was synthesized for an account that had none
HomeSynthesized ==
    /\ hook.fn = "_pre_migrate_user"
    /\ hook.at = "return"
    /\ "homedirectory" \notin DOMAIN hook.source_attrs

\* C17 (as claimed): a synthesized home directory holds no two consecutive
\* separators and does not end with a separator, for every home root and key.
C17_SeparatorsCollapsed ==
    HomeSynthesized =>
        LET home == hook.entry_attrs.homedirectory
        IN /\ \A i \in 1..(Len(home) - 1) : ~(home[i] = "/" /\ home[i + 1] = "/")
           /\ home = <<>> \/ home[Len(home)] # "/"

-----------------------------------------------------------------------------
\* Vocabulary of the properties of the loop over the entries

\* the keys of the calls of one operation made for a type, in order
KeysIn(log, op, t) ==
    LET made == SelectSeq(log, LAMBDA c : c.op = op /\ c.obj = t)
    IN [i \in DOMAIN made |-> made[i].key]

KeysOf(op, t) == KeysIn(calls, op, t)

\* the keys of the insertions of a type that the target accepted, in order
AcceptedKeys(t) ==
    LET made == SelectSeq(calls, LAMBDA c : c.op = "add_entry" /\ c.obj = t /\ c.ok)
    IN [i \in DOMAIN made |-> made[i].key]

\* the lower-cased keys of the entries to process, in the order of the search
ProcessKeys(t) ==
    LET todo == SelectSeq(ds_ldap[t].entries,
                          LAMBDA e : /\ e.dn # None
                                     /\ Lower(e.key) \notin options[exclude_option[t]])
    IN [i \in DOMAIN todo |-> Lower(todo[i].key)]

IsPrefix(a, b) == Len(a) <= Len(b) /\ SubSeq(b, 1, Len(a)) = a

RECURSIVE IsSubseq(_, _)
IsSubseq(a, b) ==
    IF a = <<>> THEN TRUE
    ELSE IF b = <<>> THEN FALSE
    ELSE IF Head(a) = Head(b) THEN IsSubseq(Tail(a), Tail(b))
    ELSE IsSubseq(a, Tail(b))

\* C21: when the call has ended, by a report or by an exception, the
\* pre-transforms of a type were made for the entries to process in the order
\* of the search, one per entry at most; the insertion attempts follow the
\* pre-transforms one for one; and the migrated list is the keys of the
\* accepted insertions, a subsequence of the keys in search order.  (The call
\* log only grows, so what holds of the whole log holds of its prefixes.)
C21_EntriesOnceInSearchOrder ==
    pc = "done" =>
    LET log == SelectSeq(calls, LAMBDA c : c.op \in {"pre_callback", "add_entry"})
        accepted == SelectSeq(log, LAMBDA c : c.ok)
    IN \A t \in Range(migrate_order) :
        LET todo == ProcessKeys(t)
            pre == KeysIn(log, "pre_callback", t)
        IN /\ IsPrefix(pre, todo)
           /\ IsPrefix(KeysIn(log, "add_entry", t), pre)
           /\ t \in DOMAIN migrated =>
                 /\ migrated[t] = KeysIn(accepted, "add_entry", t)
                 /\ IsSubseq(migrated[t], todo)

\* two accounts with different keys migrated, in the order of the search
C21_Witness ==
    /\ Returned
    /\ ret.enabled
    /\ Len(ret.result["user"]) = 2
    /\ ret.result["user"][1] # ret.result["user"][2]
    /\ ret.result["user"] = ProcessKeys("user")

\* C22: the post-transform is invoked for accounts only, directly after the
\* accepted insertion of the same key and with the default-group call made
\* before anything else; every accepted account insertion is followed by it.
C22_PostTransformAfterInsertion ==
    \A i \in DOMAIN calls :
        /\ calls[i].op = "post_callback" =>
              /\ calls[i].obj = "user"
              /\ i > 1
              /\ calls[i - 1] = Event("add_entry", "user", calls[i].key, TRUE)
              /\ i < Len(calls)
              /\ calls[i + 1].op = "add_entry_to_group"
              /\ calls[i + 1].key = calls[i].key
        /\ (calls[i].op = "add_entry" /\ calls[i].obj = "user" /\ calls[i].ok) =>
              IF i = Len(calls) THEN pc = "post"
              ELSE calls[i + 1] = Event("post_callback", "user", calls[i].key, TRUE)
        /\ (calls[i].op = "add_entry" /\ ~(calls[i].obj = "user" /\ calls[i].ok)) =>
              (i < Len(calls) => calls[i + 1].op # "post_callback")

\* a post-transform for an account, and a group inserted without one
C22_Witness ==
    /\ Returned
    /\ \E i \in DOMAIN calls : calls[i].op = "post_callback"
    /\ \E i \in DOMAIN calls : calls[i] = Event("add_entry", "group", calls[i].key, TRUE)

\* C23: when execute returns a report, every entry the searches returned with
\* a DN and a key outside the exclusion set is in the migrated list or in the
\* failure map of its type.
C23_ReportCategorizesEveryEntry ==
    (Returned /\ ret.enabled) =>
        \A t \in Range(migrate_order) :
            \A e \in ToProcess(t) :
                \/ Lower(e.key) \in Range(ret.result[t])
                \/ Lower(e.key) \in DOMAIN ret.failed[t]

\* a report with one entry migrated and another one failed
C23_Witness ==
    /\ Returned
    /\ ret.enabled
    /\ \E t \in Range(migrate_order) :
          \E e, f \in ToProcess(t) :
              /\ Lower(e.key) \in Range(ret.result[t])
              /\ Lower(f.key) \notin Range(ret.result[t])
              /\ Lower(f.key) \in DOMAIN ret.failed[t]

\* C27: when the call is ended by an exception no report is returned, and the
\* target keeps what the call did to it: every entry it had at the start,
\* every entry whose insertion was accepted, and every default-group
\* membership that was added.
C27_AbortKeepsTarget ==
    (pc = "done" /\ raised # None) =>
        /\ ret = NoReport
        /\ first.ldap.users \subseteq ldap.users
        /\ first.ldap.groups \subseteq ldap.groups
        /\ Range(AcceptedKeys("user")) \subseteq ldap.users
        /\ Range(AcceptedKeys("group")) \subseteq ldap.groups
        /\ \A i \in DOMAIN calls :
              (calls[i].op = "add_entry_to_group" /\ calls[i].ok)
                  => calls[i].key \in ldap.def_members

\* an abort in the group stage after an account was inserted and made a member
C27_Witness ==
    /\ pc = "done"
    /\ raised \in {"ValueError", "NotFound"}
    /\ Last(calls).obj = "group"
    /\ AcceptedKeys("user") # <<>>
    /\ ldap.users # first.ldap.users
    /\ ldap.def_members # {}

\* C28: with a target that rejects an insertion at a DN that exists, no key is
\* twice in the migrated list of a type, also when the search returns entries
\* whose keys are equal or differ in letter case only.
C28_MigratedKeysDistinct ==
    \A t \in DOMAIN migrated :
        \A i, j \in DOMAIN migrated[t] : i # j => migrated[t][i] # migrated[t][j]

\* two entries with the same lower-cased key: the first migrated, the second failed
C28_Witness ==
    /\ Returned
    /\ ret.enabled
    /\ Len(ds_ldap["user"].entries) = 2
    /\ ProcessKeys("user") = <<"a", "a">>
    /\ ret.result["user"] = <<"a">>
    /\ HasReason(ret.failed, "user", "a", dup_err_msg)

\* the reasons a call can leave in the failure map for its key
FailureReasons(c) ==
    IF c.op = "find_entry_by_attr" /\ c.ok THEN {krb_err_msg}
    ELSE IF c.op = "add_entry" /\ ~c.ok THEN {dup_err_msg, oth_err_msg}
    ELSE IF c.op = "add_entry_to_group" /\ ~c.ok THEN {grp_err_msg}
    ELSE {}

\* the call is made for the key and leaves a reason
FailureOf(c, t, k) == c.obj = t /\ c.key = k /\ FailureReasons(c) # {}

\* the calls made for the key that leave a reason
FailuresOf(t, k) == { i \in DOMAIN calls : FailureOf(calls[i], t, k) }

\* C29: the failure map holds for a key the reason of the latest failure
\* recorded for it: a later insertion error or default-group failure replaces
\* the principal-collision message, a later entry with the same key replaces
\* the reason of an earlier one; every key with a failure is in the map.
C29_LatestFailureWins ==
    LET log == SelectSeq(calls, LAMBDA c : ~c.ok \/ c.op = "find_entry_by_attr")
    IN \A t \in DOMAIN failed :
        /\ \A k \in DOMAIN failed[t] :
              IF \E e \in SearchReferences(t) : e.key = k
              THEN failed[t][k] = ref_err_msg
              ELSE \E i \in DOMAIN log :
                      /\ FailureOf(log[i], t, k)
                      /\ \A j \in (i + 1)..Len(log) : ~FailureOf(log[j], t, k)
                      /\ failed[t][k] \in FailureReasons(log[i])
        /\ \A i \in DOMAIN log :
              (log[i].obj = t /\ FailureReasons(log[i]) # {})
                  => log[i].key \in DOMAIN failed[t]

\* a principal-collision message replaced by the error of the insertion
C29_Witness ==
    \E i, j \in DOMAIN calls :
        /\ i < j
        /\ calls[i].op = "find_entry_by_attr" /\ calls[i].ok
        /\ calls[j] = Event("add_entry", "user", calls[i].key, FALSE)
        /\ FailuresOf("user", calls[i].key) = {i, j}
        /\ "user" \in DOMAIN failed
        /\ calls[i].key \in DOMAIN failed["user"]
        /\ failed["user"][calls[i].key] \in {dup_err_msg, oth_err_msg}

-----------------------------------------------------------------------------
\* the member DNs of the source entry that lie under both search bases
UnderBoth ==
    { d \in Range(SourceMember) \cup Range(SourceUniquemember) :
        InContainer(d, hook.search_bases.user) /\ InContainer(d, hook.search_bases.group) }

\* C30: under RFC2307bis a member DN that lies under the user search base and
\* under the group search base is converted to an account reference, and to
\* no group reference.
C30_AccountTestFirst ==
    AtGroupReturn("RFC2307bis") =>
        \A d \in UnderBoth :
            /\ \E i \in DOMAIN ResultMember :
                  ResultMember[i] = <<"u", "i", "d", "=">> \o rdnval(d)
                                      \o <<",", "cn=users,cn=accounts", ",", "dc=ipa">>
            /\ \A i \in DOMAIN ResultMember :
                  ResultMember[i] # <<"c", "n", "=">> \o rdnval(d)
                                      \o <<",", "cn=groups,cn=accounts", ",", "dc=ipa">>

\* the group container lies under the user container, and so does a member
C30_Witness ==
    /\ AtGroupReturn("RFC2307bis")
    /\ EndsWith(hook.search_bases.group, hook.search_bases.user)
    /\ UnderBoth # {}
    /\ Len(ResultMember) = Len(SourceMember) + Len(SourceUniquemember)

-----------------------------------------------------------------------------
\* Vocabulary of the properties of the entry handed to the insertion

\* a pre-callback has returned the DN: migrate goes on to ldap.add_entry
HandedOn ==
    /\ hook.fn \in {"_pre_migrate_user", "_pre_migrate_group"}
    /\ hook.at = "return"
    /\ hook.raised = None

UserHandedOn == HandedOn /\ hook.fn = "_pre_migrate_user"

\* the attributes that are never migrated for the type
FixedStripSet ==
    IF hook.fn = "_pre_migrate_user"
    THEN {"krbprincipalkey", "memberofindirect", "memberindirect"}
    ELSE {"memberofindirect", "memberindirect"}

\* the attributes the caller asked to ignore, whatever the letter case
CallerBlacklist == { Lower(a) : a \in hook.options.attr_blacklist }

\* the attribute is handed on with the value the source entry had
FromSource(a) ==
    /\ a \in DOMAIN hook.entry_attrs
    /\ a \in DOMAIN hook.source_attrs
    /\ hook.entry_attrs[a] = hook.source_attrs[a]

\* C24 (as claimed): the attributes handed to the insertion hold no attribute
\* of the fixed strip set of the type and none the caller asked to ignore.
C24_Original ==
    HandedOn => DOMAIN hook.entry_attrs \cap (FixedStripSet \cup CallerBlacklist) = {}

\* C24 amended: the attributes handed to the insertion hold no attribute of the
\* fixed strip set of the type, and none the caller asked to ignore except the
\* krbprincipalname that the account pre-callback generates after the
\* stripping; no value of the source is handed on for an ignored attribute.
C24_StrippedBeforePrincipal ==
    HandedOn =>
        \A a \in DOMAIN hook.entry_attrs :
            /\ a \notin FixedStripSet
            /\ a \in CallerBlacklist =>
                  /\ hook.fn = "_pre_migrate_user"
                  /\ a = "krbprincipalname"
                  /\ ~hook.target.principal_exists
                  /\ hook.entry_attrs[a] = hook.pkey \o <<"@", "REALM">>

\* an account with a key attribute and an ignored principal name of its own
C24_Witness ==
    /\ UserHandedOn
    /\ {"krbprincipalkey", "krbprincipalname"} \subseteq DOMAIN hook.source_attrs
    /\ "krbprincipalname" \in CallerBlacklist
    /\ "krbprincipalname" \in DOMAIN hook.entry_attrs
    /\ ~FromSource("krbprincipalname")

\* C25 (as claimed): the object classes handed to the insertion are the
\* default classes of the target and the case-folded classes of the source
\* without the classes the caller asked to ignore: no ignored class is handed
\* on, also not one of the defaults.
C25_NoIgnoredObjectClass ==
    HandedOn =>
        LET ignored == { LowerStr(c) : c \in hook.options.oc_blacklist }
        IN /\ "objectclass" \in DOMAIN hook.entry_attrs
           /\ \A c \in Range(hook.entry_attrs.objectclass) : LowerStr(c) \notin ignored
           /\ hook.fn = "_pre_migrate_user" =>
                 Range(hook.entry_attrs.objectclass) =
                     { c \in merged_object_classes(ipauserobjectclasses(hook.config),
                                                   hook.source_attrs.objectclass) :
                         LowerStr(c) \notin ignored }

\* C26 (as claimed): a home directory or group id of the source entry is handed
\* to the insertion unchanged, and an entry without group id is handed on with
\* the group id of the default group.
C26_Original ==
    UserHandedOn =>
        /\ "homedirectory" \in DOMAIN hook.source_attrs => FromSource("homedirectory")
        /\ "gidnumber" \in DOMAIN hook.source_attrs => FromSource("gidnumber")
        /\ "gidnumber" \notin DOMAIN hook.source_attrs =>
              /\ "gidnumber" \in DOMAIN hook.entry_attrs
              /\ hook.entry_attrs.gidnumber = <<def_group_gid>>

\* C26 amended: unless the caller asked to ignore the attribute (it is then not
\* handed on at all), a home directory or group id of the source entry is
\* handed to the insertion unchanged, an entry without home directory is handed
\* on with the synthesized one and an entry without group id with the group id
\* of the default group held in the context.
C26_FilledOnlyWhenLacking ==
    UserHandedOn =>
        \A a \in {"homedirectory", "gidnumber"} :
            IF a \in CallerBlacklist THEN a \notin DOMAIN hook.entry_attrs
            ELSE IF a \in DOMAIN hook.source_attrs THEN FromSource(a)
            ELSE /\ a \in DOMAIN hook.entry_attrs
                 /\ hook.entry_attrs[a] # <<"from source">>
                 /\ a = "gidnumber" =>
                       /\ hook.entry_attrs[a] = <<def_group_gid>>
                       /\ hook.entry_attrs[a] = hook.ctx.def_group_gid
                 /\ a = "homedirectory" =>
                       hook.entry_attrs[a] = <<"/", "h", "o", "m", "e", "/">> \o hook.pkey

\* a home directory of the source kept, and the group id filled in
C26_Witness ==
    /\ UserHandedOn
    /\ CallerBlacklist = {}
    /\ FromSource("homedirectory")
    /\ "gidnumber" \notin DOMAIN hook.source_attrs
    /\ "gidnumber" \in DOMAIN hook.entry_attrs
    /\ hook.entry_attrs.gidnumber = <<def_group_gid>>

=============================================================================
